---- MODULE Spec2Model ----
(***************************************************************************)
(* A model of the Crystal interpreter (src/crystal.py): the parse trees    *)
(* the grammar produces, the bottom-up walk by which main() runs a tree    *)
(* (CrystalInterpreter is a lark Transformer), and the handlers of the     *)
(* statements, expressions and conditions.                                 *)
(*                                                                         *)
(* Python text is modelled by TLA+ strings (Len, SubSeq and \o act on      *)
(* them character by character).  A Python value is a record with a tag t: *)
(* str, int or float; a float is kept as the exact fraction n/d, so the    *)
(* rounding of IEEE doubles is not modelled.                               *)
(*                                                                         *)
(* A text is given as abstract syntax and its tree is the one the rules of *)
(* CRYSTAL_GRAMMAR derive for it; the lexer (blanks, comments, the choice  *)
(* between terminals) is not modelled.  Of the file commands, make file,   *)
(* copy, move, delete, include, cd and the for-each repeat are modelled,   *)
(* over a disk of regular files and directories under the working          *)
(* directory /w; the other file commands and the network and path commands *)
(* are not.                                                                *)
(***************************************************************************)
EXTENDS Integers, Sequences, FiniteSets, TLC

VARIABLES
    mode,         \* "script" (crystal file.cry), "repl", or "unit" (methods called directly)
    src,          \* the text given so far (script file, REPL lines), as abstract syntax
    agenda,       \* the callbacks Transformer.transform has still to make, in order
    local_vars,   \* CrystalInterpreter.local_vars   (ordered dict)
    global_vars,  \* CrystalInterpreter.global_vars  (ordered dict)
    functions,    \* CrystalInterpreter.functions    (ordered dict)
    files,        \* the regular files on disk: absolute path -> content (a dict)
    dirs,         \* the directories on disk besides / and /w: absolute path -> whether
                  \* the user may enter it (its search permission)
    current_dir,  \* CrystalInterpreter.current_dir
    cwd,          \* the working directory of the process (os.getcwd())
    out,          \* the lines printed to stdout (the banners of main() left out)
    stdin,        \* the lines input() will read
    status,       \* "running", "done", "error", "killed", "hung", "prompt", "exited", "unit"
    exit_code,    \* the exit code of the process (-1 while it lives)
    nlines,       \* lines the REPL has read
    ret           \* unit: the last direct call of a method and what it gave

vars == <<mode, src, agenda, local_vars, global_vars, functions, files, dirs, current_dir, cwd,
          out, stdin, status, exit_code, nlines, ret>>

-----------------------------------------------------------------------------
(* Bounds of the model.                                                    *)

\* Iterations after which a loop that has not ended is taken to run forever.
MaxIter == 3
\* Longest text drawn as an operand of to_number.
MaxStrLen == 3
\* Largest integer literal drawn for the arithmetic operands.
MaxNum == 3
\* Lines a REPL session reads.
MaxLines == 2

-----------------------------------------------------------------------------
(* Python strings.                                                         *)

Char(s, i) == SubSeq(s, i, i)

startswith(s, p) == Len(s) >= Len(p) /\ SubSeq(s, 1, Len(p)) = p

endswith(s, p) == Len(s) >= Len(p) /\ SubSeq(s, Len(s) - Len(p) + 1, Len(s)) = p

contains(s, c) == \E i \in 1..Len(s) : Char(s, i) = c

RECURSIVE lstrip(_, _)
lstrip(s, c) == IF Len(s) > 0 /\ Char(s, 1) = c THEN lstrip(SubSeq(s, 2, Len(s)), c) ELSE s

RECURSIVE rstrip(_, _)
rstrip(s, c) == IF Len(s) > 0 /\ Char(s, Len(s)) = c THEN rstrip(SubSeq(s, 1, Len(s) - 1), c) ELSE s

\* str.strip(c) for a one-character c
strip(s, c) == rstrip(lstrip(s, c), c)

\* str.replace(old, new), old not empty: leftmost, non-overlapping
RECURSIVE replace(_, _, _)
replace(text, old, new) ==
    IF Len(text) < Len(old) THEN text
    ELSE IF startswith(text, old)
         THEN new \o replace(SubSeq(text, Len(old) + 1, Len(text)), old, new)
         ELSE Char(text, 1) \o replace(SubSeq(text, 2, Len(text)), old, new)

Digits == <<"0", "1", "2", "3", "4", "5", "6", "7", "8", "9">>

IsDigit(c) == \E i \in 1..10 : Digits[i] = c

\* the value of a non-empty string of digits
RECURSIVE ParseDigits(_)
ParseDigits(s) ==
    IF Len(s) = 0 THEN 0
    ELSE 10 * ParseDigits(SubSeq(s, 1, Len(s) - 1)) + (CHOOSE i \in 1..10 : Digits[i] = Char(s, Len(s))) - 1

AllDigits(s) == Len(s) > 0 /\ \A i \in 1..Len(s) : IsDigit(Char(s, i))

RECURSIVE NatStr(_)
NatStr(n) == IF n < 10 THEN Digits[n + 1] ELSE NatStr(n \div 10) \o Digits[(n % 10) + 1]

\* str(n) of an int
IntStr(n) == IF n < 0 THEN "-" \o NatStr(-n) ELSE NatStr(n)

-----------------------------------------------------------------------------
(* Python values.                                                          *)

\* the element of a one-element set: The({ f(x) : x \in {e} }) is f(e) with
\* e evaluated once (Python evaluates an operand once, too)
The(S) == CHOOSE x \in S : TRUE

StrV(s) == [t |-> "str", s |-> s, n |-> 0, d |-> 1]

IntV(n) == [t |-> "int", s |-> "", n |-> n, d |-> 1]

NoneV == [t |-> "None", s |-> "", n |-> 0, d |-> 1]

Abs(n) == IF n < 0 THEN -n ELSE n

RECURSIVE Gcd(_, _)
Gcd(a, b) == IF b = 0 THEN a ELSE Gcd(b, a % b)

\* the float n/d (d # 0), in lowest terms with d > 0
FloatV(n, d) ==
    The({ [t |-> "float", s |-> "", n |-> (IF d < 0 THEN -n ELSE n) \div g, d |-> Abs(d) \div g] :
          g \in {Gcd(Abs(n), Abs(d))} })

IsNumber(v) == v.t \in {"int", "float"}

\* a number from two operands: an int when both are ints (and d is 1)
NumV(a, b, n, d) == IF a.t = "int" /\ b.t = "int" /\ d = 1 THEN IntV(n) ELSE FloatV(n, d)

\* a / b, b # 0: true division, always a float
py_truediv(a, b) == FloatV(a.n * b.d, a.d * b.n)

py_eq(a, b) == a.n * b.d = b.n * a.d

\* the digits of the fraction r/d (0 <= r < d), at most k of them
RECURSIVE FracDigits(_, _, _)
FracDigits(r, d, k) ==
    IF r = 0 \/ k = 0 THEN ""
    ELSE Digits[((10 * r) \div d) + 1] \o FracDigits((10 * r) % d, d, k - 1)

\* str(v).  The text of a float is its decimal expansion cut at 16 digits,
\* which is Python's shortest repr only for the fractions that end.
PyStr(v) ==
    CASE v.t = "str" -> v.s
      [] v.t = "int" -> IntStr(v.n)
      [] v.t = "float" ->
            (IF v.n < 0 THEN "-" ELSE "") \o NatStr(Abs(v.n) \div v.d) \o "."
            \o (IF Abs(v.n) % v.d = 0 THEN "0" ELSE FracDigits(Abs(v.n) % v.d, v.d, 16))
      [] OTHER -> "None"

\* int(s) and float(s) accept spaces around the number and one sign: the
\* text without them, and the sign
Unsigned(s) ==
    The({ IF Len(u) > 0 /\ Char(u, 1) \in {"-", "+"} THEN SubSeq(u, 2, Len(u)) ELSE u :
          u \in {strip(s, " ")} })

Sign(s) == The({ IF Len(u) > 0 /\ Char(u, 1) = "-" THEN -1 ELSE 1 : u \in {strip(s, " ")} })

\* int(s) does not raise ValueError
IntParses(s) == \E b \in {Unsigned(s)} : AllDigits(b)

IntOf(s) == Sign(s) * ParseDigits(Unsigned(s))

\* float(s), for the texts without exponent: digits with one point and at
\* least one digit
FloatParses(s) ==
    \E b \in {Unsigned(s)} :
       /\ contains(b, ".")
       /\ \E p \in {CHOOSE i \in 1..Len(b) : Char(b, i) = "."} :
             /\ Len(b) > 1
             /\ \A i \in 1..Len(b) : i # p => IsDigit(Char(b, i))

RECURSIVE Pow10(_)
Pow10(k) == IF k = 0 THEN 1 ELSE 10 * Pow10(k - 1)

FloatOf(s) ==
    The({ The({ FloatV(Sign(s) * ParseDigits(SubSeq(b, 1, p - 1) \o SubSeq(b, p + 1, Len(b))),
                       Pow10(Len(b) - p)) :
                p \in {CHOOSE i \in 1..Len(b) : Char(b, i) = "."} }) :
          b \in {Unsigned(s)} })

-----------------------------------------------------------------------------
(* Python dicts keep insertion order: a sequence of [key, val].            *)

DictHas(d, k) == \E i \in 1..Len(d) : d[i].key = k

DictGet(d, k) == d[CHOOSE i \in 1..Len(d) : d[i].key = k].val

\* d[k] = v
DictSet(d, k, v) ==
    IF DictHas(d, k)
    THEN [i \in 1..Len(d) |-> IF d[i].key = k THEN [key |-> k, val |-> v] ELSE d[i]]
    ELSE Append(d, [key |-> k, val |-> v])

\* {**a, **b}
RECURSIVE DictMerge(_, _)
DictMerge(a, b) == IF b = <<>> THEN a ELSE DictMerge(DictSet(a, b[1].key, b[1].val), Tail(b))

-----------------------------------------------------------------------------
(* Parse trees.  A node is a lark Tree (data, children), a lark Token      *)
(* (type, value) or None.  hasattr(x, 'data') is IsTree(x) and             *)
(* hasattr(x, 'type') is IsToken(x).                                       *)

Tree(data, children) == [k |-> "Tree", data |-> data, children |-> children]

Token(type, value) == [k |-> "Token", type |-> type, value |-> value]

None == [k |-> "None"]

IsTree(x) == x.k = "Tree"

IsToken(x) == x.k = "Token"

\* A literal written inside a rule ("say", "otherwise", "=", ...): an anonymous
\* terminal.
Kw(text) == Token("__ANON", text)

NEWLINE == Token("NEWLINE", "\n")

\* lark's tree builder (keep_all_tokens is off in Lark(CRYSTAL_GRAMMAR, ...)):
\* the tokens of anonymous literals are filtered out of the children, the
\* named terminals (STRING, NUMBER, VARIABLE, NAME, NEWLINE, COMP_OP) are kept.
Rule(data, matched) ==
    Tree(data, SelectSeq(matched, LAMBDA x : ~(IsToken(x) /\ x.type = "__ANON")))

-----------------------------------------------------------------------------
(* CRYSTAL_GRAMMAR: the tree of a script text.  The text is given as       *)
(* abstract syntax: an expression is [e |-> "num" | "str" | "var", text]   *)
(* or [e |-> "bin", op, l, r]; a statement is a record with its kind op.   *)
(* An operand that the grammar can only take in parentheses is taken to be *)
(* written in parentheses.                                                 *)

value(e) ==
    Rule("value", << CASE e.e = "num" -> Token("NUMBER", e.text)
                       [] e.e = "str" -> Token("STRING", "\"" \o e.text \o "\"")
                       [] OTHER       -> Token("VARIABLE", "'" \o e.text \o "'") >>)

RECURSIVE expression(_)
RECURSIVE term(_)
RECURSIVE factor(_)

expression(e) ==
    IF e.e = "bin" /\ e.op \in {"+", "-"}
    THEN Rule(IF e.op = "+" THEN "add" ELSE "subtract", <<expression(e.l), Kw(e.op), term(e.r)>>)
    ELSE Rule("expression", <<term(e)>>)

term(e) ==
    IF e.e = "bin" /\ e.op \in {"*", "/", "%"}
    THEN Rule(CASE e.op = "*" -> "multiply" [] e.op = "/" -> "divide" [] OTHER -> "modulo",
              <<term(e.l), Kw(e.op), factor(e.r)>>)
    ELSE Rule("term", <<factor(e)>>)

factor(e) ==
    IF e.e = "bin"
    THEN Rule("factor", <<Kw("("), expression(e), Kw(")")>>)
    ELSE Rule("factor", <<value(e)>>)

\* a condition is [c |-> "cmp", l, op, r]
comparison(c) == Rule("comparison", <<expression(c.l), Token("COMP_OP", c.op), expression(c.r)>>)

condition(c) == Rule("condition", <<comparison(c)>>)

\* a STRING token
StringTok(text) == Token("STRING", "\"" \o text \o "\"")

\* file_path: PATH | STRING | VARIABLE, written as a string
file_path(path) == Rule("file_path", <<StringTok(path)>>)

RECURSIVE statement(_)
RECURSIVE statements(_)

statements(ss) == IF ss = <<>> THEN <<>> ELSE <<statement(ss[1])>> \o statements(Tail(ss))

\* the statements of one line: say_stmt, ask_stmt, set_stmt, error_stmt,
\* include_stmt, cd_stmt, make_file, copy_stmt, move_stmt, delete_stmt,
\* function_call
line_stmt(s) ==
    CASE s.op = "say"   -> Rule("say_stmt", <<Kw("say"), StringTok(s.text)>>)
      [] s.op = "ask"   -> Rule("ask_stmt", <<Kw("ask"), StringTok(s.text), Kw(s.scope),
                                              Token("VARIABLE", "'" \o s.var \o "'")>>)
      [] s.op = "set"   -> Rule("set_stmt", <<Kw("set"), Kw(s.scope), Token("VARIABLE", "'" \o s.var \o "'"), Kw("="),
                                              expression(s.expr)>>)
      [] s.op = "error" -> Rule("error_stmt", <<Kw("error"), StringTok(s.text)>>)
      [] s.op = "include" -> Rule("include_stmt", <<Kw("include"), file_path(s.path)>>)
      [] s.op = "cd"    -> Rule("cd_stmt", <<Kw("cd"), file_path(s.path)>>)
      [] s.op = "make" ->
            Rule("make_file", <<Kw("make"), Kw("file"), file_path(s.path), StringTok(s.text)>>
                              \o (IF s.force THEN <<Rule("force", <<Kw("--force")>>)>> ELSE <<>>))
      [] s.op \in {"copy", "move"} ->
            Rule(s.op \o "_stmt", <<Kw(s.op), file_path(s.path), Kw("to"), file_path(s.dest)>>
                                  \o (IF s.force THEN <<Rule("force", <<Kw("--force")>>)>> ELSE <<>>))
      [] s.op = "delete" ->
            Rule("delete_stmt", <<Kw("delete"), file_path(s.path)>>
                                \o (IF s.force THEN <<Rule("force", <<Kw("--force")>>)>> ELSE <<>>))
      [] OTHER          -> Rule("function_call", <<Token("NAME", s.name)>>)

\* the statements with a body: if_stmt, repeat_stmt (with its repeat_type),
\* function_def, try_stmt
block_stmt(s) ==
    CASE s.op = "if" ->
            Rule("if_stmt",
                 <<Kw("if"), condition(s.cond), NEWLINE>> \o statements(s.body)
                 \o (IF s.orelse = <<>> THEN <<>>
                     ELSE <<Kw("otherwise"), NEWLINE>> \o statements(s.orelse))
                 \o <<Kw("end"), Kw("if")>>)
      [] s.op = "repeat" ->
            Rule("repeat_stmt",
                 <<Kw("repeat"),
                   CASE s.kind = "count"    -> Rule("repeat_count", <<Token("NUMBER", s.count)>>)
                     [] s.kind = "infinite" -> Rule("repeat_infinite", <<Kw("infinite")>>)
                     [] s.kind = "while"    -> Rule("repeat_while", <<Kw("while"), condition(s.cond)>>)
                     [] s.kind = "until"    -> Rule("repeat_until", <<Kw("until"), condition(s.cond)>>)
                     [] OTHER               ->
                          Rule("repeat_foreach",
                               <<Kw("for"), Kw("each"), Token("VARIABLE", "'" \o s.var \o "'"),
                                 Kw("in"), file_path(s.path)>>),
                   NEWLINE>>
                 \o statements(s.body) \o <<Kw("end"), Kw("repeat")>>)
      [] s.op = "def" ->
            Rule("function_def",
                 <<Kw("function"), Token("NAME", s.name), NEWLINE>> \o statements(s.body)
                 \o <<Kw("end"), Kw("function")>>)
      [] OTHER ->
            Rule("try_stmt",
                 <<Kw("try"), NEWLINE>> \o statements(s.body)
                 \o <<Kw("catch"), NEWLINE>> \o statements(s.handler)
                 \o <<Kw("end"), Kw("try")>>)

statement(s) ==
    Rule("statement", <<IF s.op \in {"if", "repeat", "def", "try"} THEN block_stmt(s)
                        ELSE line_stmt(s)>>)

\* parser.parse(text + "\n")
parse(script) == Rule("start", statements(script))

-----------------------------------------------------------------------------
(* The interpreter object.  A method takes self (the fields, the text      *)
(* printed so far, the pending exception) and gives the self it leaves; a  *)
(* method with a result gives [self, val].                                 *)

NoExc == [type |-> "", msg |-> ""]

Raise(self, type, msg) == [self EXCEPT !.exc = [type |-> type, msg |-> msg]]

Raised(self) == self.exc.type # ""

\* what `except Exception` catches: not KeyboardInterrupt, and a run that
\* never returns raises nothing
IsException(exc) == exc.type \notin {"", "KeyboardInterrupt", "<runs forever>"}

\* print(line)
Print_(self, line) == [self EXCEPT !.out = Append(@, line)]

R(self, val) == [self |-> self, val |-> val]

\* repr(s) of a str: the quote Python picks (escapes other than \n are not
\* modelled)
PyRepr(s) ==
    The({ q \o replace(s, "\n", "\\n") \o q :
          q \in {IF contains(s, "'") /\ ~contains(s, "\"") THEN "\"" ELSE "'"} })

\* str(node): Tree.__repr__ is 'Tree(%r, %r)', Token.__str__ is its value
RECURSIVE NodeRepr(_)
RECURSIVE NodeReprs(_)
NodeReprs(xs) ==
    IF xs = <<>> THEN ""
    ELSE NodeRepr(xs[1]) \o (IF Len(xs) > 1 THEN ", " ELSE "") \o NodeReprs(Tail(xs))

NodeRepr(x) ==
    CASE IsTree(x)  -> "Tree(" \o PyRepr(x.data) \o ", [" \o NodeReprs(x.children) \o "])"
      [] IsToken(x) -> "Token(" \o PyRepr(x.type) \o ", " \o PyRepr(x.value) \o ")"
      [] OTHER      -> "None"

\* the loop of resolve_value over {**global_vars, **local_vars}.items()
RECURSIVE substitute(_, _)
substitute(text, items) ==
    IF items = <<>> THEN text
    ELSE substitute(replace(text, "'" \o items[1].key \o "'", PyStr(items[1].val)), Tail(items))

\* the unwrapping of a value node and of a path node, then str(val)
val_str_of(val) ==
    The({ The({ IF IsToken(v2) THEN v2.value ELSE NodeRepr(v2) :
                v2 \in {IF IsTree(v1) /\ v1.data = "path" THEN v1.children[1] ELSE v1} }) :
          v1 \in {IF IsTree(val) /\ val.data = "value" THEN val.children[1] ELSE val} })

resolve_value(self, val) ==
    The({ IF startswith(val_str, "'") /\ endswith(val_str, "'")
          THEN The({ IF DictHas(self.local_vars, var_name)
                     THEN DictGet(self.local_vars, var_name)
                     ELSE IF DictHas(self.global_vars, var_name)
                     THEN DictGet(self.global_vars, var_name)
                     ELSE StrV("[UNDEFINED: " \o var_name \o "]") :
                     var_name \in {strip(val_str, "'")} })
          ELSE IF startswith(val_str, "\"") /\ endswith(val_str, "\"")
          THEN StrV(substitute(strip(val_str, "\""), DictMerge(self.global_vars, self.local_vars)))
          ELSE StrV(val_str) :
          val_str \in {val_str_of(val)} })

\* a to_number that lets the ValueError of int() and float() through
to_number_raising(self, v) ==
    IF IsNumber(v) THEN R(self, v)
    ELSE The({ IF (IF contains(val_str, ".") THEN FloatParses(val_str) ELSE IntParses(val_str))
               THEN R(self, IF contains(val_str, ".") THEN FloatOf(val_str)
                            ELSE IntV(IntOf(val_str)))
               ELSE R(Raise(self, "ValueError", "invalid literal"), NoneV) :
               val_str \in {PyStr(v)} })

to_number(self, v) ==
    IF IsNumber(v) THEN R(self, v)
    ELSE The({ IF (IF contains(val_str, ".") THEN FloatParses(val_str) ELSE IntParses(val_str))
               THEN R(self, IF contains(val_str, ".") THEN FloatOf(val_str)
                            ELSE IntV(IntOf(val_str)))
               ELSE \* except ValueError:
                    R(Print_(self, "[ERROR] Cannot convert '" \o val_str \o "' to number"), IntV(0)) :
               val_str \in {PyStr(v)} })

\* self.to_number(left) <op> self.to_number(right), left before right
operands(self, left, right) ==
    The({ The({ [self |-> b.self, l |-> a.val, r |-> b.val] :
                b \in {to_number(a.self, right)} }) :
          a \in {to_number(self, left)} })

add(self, left, right) ==
    The({ R(o.self, NumV(o.l, o.r, o.l.n * o.r.d + o.r.n * o.l.d, o.l.d * o.r.d)) : o \in {operands(self, left, right)} })

subtract(self, left, right) ==
    The({ R(o.self, NumV(o.l, o.r, o.l.n * o.r.d - o.r.n * o.l.d, o.l.d * o.r.d)) : o \in {operands(self, left, right)} })

multiply(self, left, right) ==
    The({ R(o.self, NumV(o.l, o.r, o.l.n * o.r.n, o.l.d * o.r.d)) : o \in {operands(self, left, right)} })

\* a divide without the test of the divisor: Python's / raises on zero
divide_unguarded(self, left, right) ==
    The({ IF py_eq(o.r, IntV(0))
          THEN R(Raise(o.self, "ZeroDivisionError", "division by zero"), NoneV)
          ELSE R(o.self, py_truediv(o.l, o.r)) :
          o \in {operands(self, left, right)} })

\* the divisor is converted first, the dividend only when it is not zero
divide(self, left, right) ==
    The({ IF py_eq(divisor.val, IntV(0))
          THEN R(Print_(divisor.self, "[ERROR] Division by zero"), IntV(0))
          ELSE The({ R(a.self, py_truediv(a.val, divisor.val)) :
                     a \in {to_number(divisor.self, left)} }) :
          divisor \in {to_number(self, right)} })

\* Python raises ZeroDivisionError for x % 0; nothing here catches it.
\* a % b, b # 0, is a - b * q with q the floor of a / b, so that the sign of
\* the result is that of b
modulo(self, left, right) ==
    The({ IF py_eq(o.r, IntV(0))
          THEN R(Raise(o.self, "ZeroDivisionError",
                       IF o.l.t = "int" /\ o.r.t = "int" THEN "integer modulo by zero"
                       ELSE "float modulo"),
                 NoneV)
          ELSE The({ R(o.self, NumV(o.l, o.r, o.l.n * o.r.d - q * o.r.n * o.l.d, o.l.d * o.r.d)) :
                     q \in {IF o.l.d * o.r.n < 0 THEN (-(o.l.n * o.r.d)) \div (-(o.l.d * o.r.n))
                             ELSE (o.l.n * o.r.d) \div (o.l.d * o.r.n)} }) :
          o \in {operands(self, left, right)} })

\* the call of the method named like the node
binary(self, data, left, right) ==
    CASE data = "add"      -> add(self, left, right)
      [] data = "subtract" -> subtract(self, left, right)
      [] data = "multiply" -> multiply(self, left, right)
      [] data = "divide"   -> divide(self, left, right)
      [] OTHER             -> modulo(self, left, right)

RECURSIVE evaluate_expression(_, _)
evaluate_expression(self, expr) ==
    IF IsTree(expr) /\ expr.data \in {"add", "subtract", "multiply", "divide", "modulo"}
    THEN The({ IF Raised(left.self) THEN left
               ELSE The({ IF Raised(right.self) THEN right
                          ELSE binary(right.self, expr.data, left.val, right.val) :
                          right \in {evaluate_expression(left.self, expr.children[2])} }) :
               left \in {evaluate_expression(self, expr.children[1])} })
    ELSE IF IsTree(expr) /\ expr.data \in {"expression", "term", "factor"}
    THEN evaluate_expression(self, expr.children[1])
    ELSE R(self, resolve_value(self, expr))

\* the comparison branch; the existence check of a path is not modelled here
compare(op, left_num, right_num) ==
    CASE op \in {"greater than", ">"}  -> left_num.n * right_num.d > right_num.n * left_num.d
      [] op \in {"less than", "<"}     -> left_num.n * right_num.d < right_num.n * left_num.d
      [] op \in {"equals", "is", "="}  -> py_eq(left_num, right_num)
      [] OTHER                         -> FALSE

\* try: left_num = to_number(left) ... except: (to_number raises nothing, so
\* the except branch is never taken)
compare_values(self, op, left, right) ==
    The({ IF Raised(o.self)
          THEN IF op \in {"equals", "is", "="}
               THEN R([o.self EXCEPT !.exc = NoExc], PyStr(left) = PyStr(right))
               ELSE R(Print_([o.self EXCEPT !.exc = NoExc],
                             "[ERROR] Cannot compare non-numeric values with " \o op), FALSE)
          ELSE R(o.self, compare(op, o.l, o.r)) :
          o \in {operands(self, left, right)} })

evaluate_condition(self, cond) ==
    IF IsTree(cond) /\ cond.data = "comparison"
    THEN The({ IF Raised(left.self) THEN R(left.self, FALSE)
               ELSE The({ IF Raised(right.self) THEN R(right.self, FALSE)
                          ELSE compare_values(right.self, cond.children[2].value,
                                              left.val, right.val) :
                          right \in {evaluate_expression(left.self, cond.children[3])} }) :
               left \in {evaluate_expression(self, cond.children[1])} })
    ELSE R(self, FALSE)

-----------------------------------------------------------------------------
(* The statement handlers.  args is the list of children handed to the     *)
(* method; Python's args[i] is args[i + 1] here.                           *)

say_stmt(self, args) ==
    The({ Print_(self, PyStr(v)) : v \in {resolve_value(self, args[1])} })

\* self.<scope>_vars[var] = val
bind(self, scope, var, val) ==
    IF scope = "local" THEN [self EXCEPT !.local_vars = DictSet(@, var, val)]
    ELSE [self EXCEPT !.global_vars = DictSet(@, var, val)]

\* input(prompt): the prompt is printed, the next line of stdin is the result
ask_stmt(self, args) ==
    IF Len(args) < 3 THEN Raise(self, "IndexError", "list index out of range")
    ELSE The({ IF self.stdin = <<>>
               THEN Raise(Print_(self, PyStr(prompt_text) \o " "), "EOFError",
                          "EOF when reading a line")
               ELSE bind([Print_(self, PyStr(prompt_text) \o " ") EXCEPT !.stdin = Tail(@)],
                         args[2].value, strip(args[3].value, "'"), StrV(Head(self.stdin))) :
               prompt_text \in {resolve_value(self, args[1])} })

set_stmt(self, args) ==
    IF Len(args) < 3 THEN Raise(self, "IndexError", "list index out of range")
    ELSE The({ IF Raised(e.self) THEN e.self
               ELSE bind(e.self, args[1].value, strip(args[2].value, "'"), e.val) :
               e \in {evaluate_expression(self, args[3])} })

error_stmt(self, args) ==
    The({ Raise(self, "Exception", PyStr(message)) : message \in {resolve_value(self, args[1])} })

\* os.path.join(dir, path) unless os.path.isabs(path): with
\* self.current_dir what the handlers compute, with the working directory of
\* the process what the OS makes of a path handed to it as it is
abspath(dir, path) ==
    IF startswith(path, "/") THEN path
    ELSE IF endswith(dir, "/") THEN dir \o path
    ELSE dir \o "/" \o path

\* path.split('/')
RECURSIVE split(_)
split(path) ==
    IF ~contains(path, "/") THEN <<path>>
    ELSE The({ <<SubSeq(path, 1, i - 1)>> \o split(SubSeq(path, i + 1, Len(path))) :
               i \in {CHOOSE i \in 1..Len(path) :
                         Char(path, i) = "/" /\ \A j \in 1..(i - 1) : Char(path, j) # "/"} })

\* the loop of posixpath.normpath over the components of an absolute path:
\* empty components and '.' are dropped, '..' drops the component before it
\* (new_comps is kept as the text '/a/b')
RECURSIVE normparts(_, _)
normparts(comps, new_comps) ==
    IF comps = <<>> THEN new_comps
    ELSE IF comps[1] \in {"", "."} THEN normparts(Tail(comps), new_comps)
    ELSE IF comps[1] = ".."
    THEN normparts(Tail(comps),
                   IF new_comps = "" THEN ""
                   ELSE SubSeq(new_comps, 1,
                               (CHOOSE i \in 1..Len(new_comps) :
                                   /\ Char(new_comps, i) = "/"
                                   /\ \A j \in (i + 1)..Len(new_comps) : Char(new_comps, j) # "/") - 1))
    ELSE normparts(Tail(comps), new_comps \o "/" \o comps[1])

\* os.path.abspath(path) of an absolute path (a path that begins with
\* exactly two slashes, which keeps them, is not drawn)
normpath(path) ==
    The({ IF new_comps = "" THEN "/" ELSE new_comps : new_comps \in {normparts(split(path), "")} })

\* os.path.exists and os.path.isdir look at the disk; os.chdir raises
\* PermissionError for a directory the user may not enter, after
\* self.current_dir has been assigned
cd_stmt(self, args) ==
    The({ IF ~(target \in {"/", "/w"} \/ DictHas(self.dirs, target) \/ DictHas(self.files, target))
          THEN Print_(self, "[ERROR] Directory not found: " \o target)
          ELSE IF DictHas(self.files, target)
          THEN Print_(self, "[ERROR] Not a directory: " \o target)
          ELSE IF DictHas(self.dirs, target) /\ ~DictGet(self.dirs, target)
          THEN Raise([self EXCEPT !.current_dir = target], "PermissionError",
                     "[Errno 13] Permission denied: " \o PyRepr(target))
          ELSE Print_([self EXCEPT !.current_dir = target, !.cwd = target], "[CD] " \o target) :
          target \in {normpath(abspath(self.current_dir, PyStr(resolve_value(self, args[1]))))} })

\* input(prompt).lower() in ['yes', 'y']: the prompt is printed and the next
\* line of stdin read (EOFError when there is none)
confirmed(self, prompt) ==
    IF self.stdin = <<>> THEN R(Raise(Print_(self, prompt), "EOFError", "EOF when reading a line"), FALSE)
    ELSE R([Print_(self, prompt) EXCEPT !.stdin = Tail(@)],
           Head(self.stdin) \in {"yes", "yeS", "yEs", "yES", "Yes", "YeS", "YEs", "YES", "y", "Y"})

\* the source is a regular file (the copytree branch is not modelled);
\* shutil.copy2 raises SameFileError when both paths name the same file and
\* writes nothing then
copy_stmt(self, args) ==
    The({ The({ IF ~DictHas(self.files, src_)
                THEN Print_(self, "[ERROR] Source not found: " \o src_)
                ELSE The({ IF Raised(c.self) THEN c.self
                           ELSE IF ~c.val THEN Print_(c.self, "[CANCELLED] Copy operation cancelled")
                           ELSE IF src_ = dst
                           THEN Print_(c.self, "[ERROR] Failed to copy: " \o PyRepr(src_) \o " and "
                                               \o PyRepr(dst) \o " are the same file")
                           ELSE Print_([c.self EXCEPT !.files = DictSet(@, dst, DictGet(@, src_))],
                                       "[SUCCESS] Copied file: " \o src_ \o " -> " \o dst) :
                           c \in {IF DictHas(self.files, dst) /\ ~force
                                  THEN confirmed(self, "'" \o dst \o "' already exists. Overwrite? (yes/no) ")
                                  ELSE R(self, TRUE)} }) :
                src_ \in {abspath(self.current_dir, PyStr(resolve_value(self, args[1])))},
                dst \in {abspath(self.current_dir, PyStr(resolve_value(self, args[2])))} }) :
          force \in {args # <<>> /\ val_str_of(args[Len(args)]) = "--force"} })

\* a destination that exists is removed first (os.remove), then
\* shutil.move(src, dst) renames the source; when the source is gone by then
\* (it was the destination) os.rename and the copy2 that shutil.move falls
\* back on raise FileNotFoundError
move_stmt(self, args) ==
    The({ The({ IF ~DictHas(self.files, src_)
                THEN Print_(self, "[ERROR] Source not found: " \o src_)
                ELSE The({ IF Raised(c.self) THEN c.self
                           ELSE IF ~c.val THEN Print_(c.self, "[CANCELLED] Move operation cancelled")
                           ELSE The({ IF ~DictHas(removed, src_)
                                      THEN Print_([c.self EXCEPT !.files = removed],
                                                  "[ERROR] Failed to move: [Errno 2] No such file or "
                                                  \o "directory: " \o PyRepr(src_))
                                      ELSE Print_([c.self EXCEPT !.files =
                                                      SelectSeq(DictSet(removed, dst, DictGet(removed, src_)),
                                                                LAMBDA f : f.key # src_)],
                                                  "[SUCCESS] Moved: " \o src_ \o " -> " \o dst) :
                                      removed \in {SelectSeq(c.self.files, LAMBDA f : f.key # dst)} }) :
                           c \in {IF DictHas(self.files, dst) /\ ~force
                                  THEN confirmed(self, "'" \o dst \o "' already exists. Overwrite? (yes/no) ")
                                  ELSE R(self, TRUE)} }) :
                src_ \in {abspath(self.current_dir, PyStr(resolve_value(self, args[1])))},
                dst \in {abspath(self.current_dir, PyStr(resolve_value(self, args[2])))} }) :
          force \in {args # <<>> /\ val_str_of(args[Len(args)]) = "--force"} })

\* the flag is looked for as str(args[-1]) == '--force'; the writing of the
\* file does not fail in the model (the parent directory /w exists)
make_file(self, args) ==
    The({ The({ The({ IF DictHas(self.files, target_path) /\ ~force
                      THEN The({ IF Raised(c.self) THEN c.self
                                 ELSE IF ~c.val
                                 THEN Print_(c.self, "[CANCELLED] Make file operation cancelled")
                                 ELSE Print_([c.self EXCEPT !.files = DictSet(@, target_path, content)],
                                             "[SUCCESS] Created file: " \o target_path) :
                                 c \in {confirmed(self, "'" \o target_path
                                                        \o "' already exists. Overwrite? (yes/no) ")} })
                      ELSE Print_([self EXCEPT !.files = DictSet(@, target_path, content)],
                                  "[SUCCESS] Created file: " \o target_path) :
                      target_path \in {abspath(self.current_dir, PyStr(resolve_value(self, a[1])))},
                      content \in {PyStr(resolve_value(self, a[2]))} }) :
                a \in {IF force THEN SubSeq(args, 1, Len(args) - 1) ELSE args} }) :
          force \in {args # <<>> /\ val_str_of(args[Len(args)]) = "--force"} })

\* the files of the model are regular files: the directory branches
\* (os.walk, shutil.rmtree) are not modelled, and os.remove does not fail
delete_stmt(self, args) ==
    The({ The({ IF ~DictHas(self.files, path) THEN Print_(self, "[ERROR] Path not found: " \o path)
                ELSE IF ~force
                THEN The({ IF Raised(c.self) THEN c.self
                           ELSE IF ~c.val
                           THEN Print_(c.self, "[CANCELLED] Delete operation cancelled")
                           ELSE Print_([c.self EXCEPT !.files = SelectSeq(@, LAMBDA f : f.key # path)],
                                       "[SUCCESS] Deleted file: " \o path) :
                           c \in {confirmed(Print_(self, "[WARNING] About to delete file: " \o path),
                                            "Are you sure? (yes/no) ")} })
                ELSE Print_([self EXCEPT !.files = SelectSeq(@, LAMBDA f : f.key # path)],
                            "[SUCCESS] Deleted file: " \o path) :
                path \in {abspath(self.current_dir, PyStr(resolve_value(
                              self, (IF force THEN SubSeq(args, 1, Len(args) - 1) ELSE args)[1])))} }) :
          force \in {args # <<>> /\ val_str_of(args[Len(args)]) = "--force"} })

function_def(self, args) ==
    Print_([self EXCEPT !.functions = DictSet(@, args[1].value, Tail(args))],
           "[FUNCTION] Defined: " \o args[1].value)

RECURSIVE execute_statement(_, _)

\* for stmt in stmts: self.execute_statement(stmt)
RECURSIVE execute_all(_, _)
execute_all(self, stmts) ==
    IF stmts = <<>> \/ Raised(self) THEN self
    ELSE execute_all(execute_statement(self, stmts[1]), Tail(stmts))

\* the index (from 1 here) of the first child that is a token reading w, or 0
FirstToken(args, from, w) ==
    The({ IF hits = {} THEN 0 ELSE CHOOSE i \in hits : \A j \in hits : i <= j :
          hits \in {{i \in from..Len(args) : IsToken(args[i]) /\ args[i].value = w}} })

\* the block of if_stmt to run: args[1:otherwise_index] or args[otherwise_index+1:]
\* with an 'otherwise' token at otherwise_index, else args[1:] or nothing
if_block(args, otherwise_index, taken) ==
    IF taken
    THEN IF otherwise_index # 0 THEN SubSeq(args, 2, otherwise_index - 1) ELSE Tail(args)
    ELSE IF otherwise_index # 0 THEN SubSeq(args, otherwise_index + 1, Len(args)) ELSE <<>>

if_stmt(self, args) ==
    The({ IF Raised(c.self) THEN c.self
          ELSE execute_all(c.self, if_block(args, FirstToken(args, 2, "otherwise"), c.val)) :
          c \in {evaluate_condition(self, args[1])} })

\* A loop still running after MaxIter rounds runs forever: with sigint the
\* user then presses Ctrl-C (KeyboardInterrupt), without it the call never
\* returns.
Forever(self) ==
    IF self.sigint THEN Raise(self, "KeyboardInterrupt", "")
    ELSE Raise(self, "<runs forever>", "")

\* while True: for stmt in statements: ...
RECURSIVE loop_infinite(_, _, _)
loop_infinite(self, body, fuel) ==
    IF Raised(self) THEN self
    ELSE IF fuel = 0 THEN Forever(self)
    ELSE loop_infinite(execute_all(self, body), body, fuel - 1)

\* for _ in range(count): ...
RECURSIVE loop_count(_, _, _)
loop_count(self, body, count) ==
    IF count <= 0 \/ Raised(self) THEN self
    ELSE loop_count(execute_all(self, body), body, count - 1)

\* while self.evaluate_condition(condition) [is `goon`]: ...
RECURSIVE loop_cond(_, _, _, _, _)
loop_cond(self, cond, goon, body, fuel) ==
    IF Raised(self) THEN self
    ELSE The({ IF Raised(c.self) \/ c.val # goon THEN c.self
               ELSE IF fuel = 0 THEN Forever(c.self)
               ELSE loop_cond(execute_all(c.self, body), cond, goon, body, fuel - 1) :
               c \in {evaluate_condition(self, cond)} })

\* except KeyboardInterrupt: print("\n[Loop interrupted]")
interrupted(s) ==
    IF s.exc.type = "KeyboardInterrupt"
    THEN Print_([s EXCEPT !.exc = NoExc], "\n[Loop interrupted]")
    ELSE s

\* for item in items: self.local_vars[var_name] = item; ...
RECURSIVE loop_foreach(_, _, _, _)
loop_foreach(self, var_name, items, body) ==
    IF items = <<>> \/ Raised(self) THEN self
    ELSE loop_foreach(execute_all(bind(self, "local", var_name, StrV(items[1])), body),
                      var_name, Tail(items), body)

\* count = int(self.resolve_value(...))
repeat_count(self, text, stmts) ==
    IF IntParses(text) THEN loop_count(self, stmts, IntOf(text))
    ELSE Raise(self, "ValueError", "invalid literal for int() with base 10: " \o PyRepr(text))

\* os.path.isdir and os.listdir resolve the path against the working
\* directory of the process; the entries (the paths that continue the
\* directory's path and a slash by one component) are given in the order of
\* the dicts
repeat_stmt(self, args) ==
    IF ~IsTree(args[1]) THEN self
    ELSE CASE args[1].data = "repeat_infinite" ->
                interrupted(loop_infinite(self, Tail(args), MaxIter))
           [] args[1].data = "repeat_count" ->
                The({ repeat_count(self, text, Tail(args)) :
                      text \in {PyStr(resolve_value(self, args[1].children[1]))} })
           [] args[1].data = "repeat_foreach" ->
                The({ IF The({ DictHas(self.dirs, d) \/ d \in {"/", "/w"} :
                               d \in {normpath(abspath(self.cwd, path))} })
                      THEN The({ loop_foreach(
                                   self, strip(val_str_of(args[1].children[1]), "'"),
                                   The({ [i \in 1..Len(entries) |->
                                            SubSeq(entries[i].key, Len(d) + 1, Len(entries[i].key))] :
                                         entries \in {SelectSeq(
                                            self.files \o self.dirs,
                                            LAMBDA f : /\ startswith(f.key, d)
                                                       /\ Len(f.key) > Len(d)
                                                       /\ ~contains(SubSeq(f.key, Len(d) + 1, Len(f.key)),
                                                                    "/"))} }),
                                   Tail(args)) :
                                 d \in {abspath(normpath(abspath(self.cwd, path)), "")} })
                      ELSE Print_(self, "[ERROR] Not a directory: " \o path) :
                      path \in {PyStr(resolve_value(self, args[1].children[2]))} })
           [] args[1].data \in {"repeat_while", "repeat_until"} ->
                loop_cond(self, args[1].children[1], args[1].data = "repeat_while",
                          Tail(args), MaxIter)
           [] OTHER -> self

function_call(self, args) ==
    IF args = <<>> \/ args[1].value = "" THEN self
    ELSE IF ~DictHas(self.functions, args[1].value) THEN self
    ELSE execute_all(self, DictGet(self.functions, args[1].value))

\* except Exception as e: print; then the catch block
caught(s, catch_statements) ==
    IF IsException(s.exc)
    THEN execute_all(Print_([s EXCEPT !.exc = NoExc], "[ERROR CAUGHT] " \o s.exc.msg),
                     catch_statements)
    ELSE s

\* the try block is the statements before the first 'catch' token, the
\* catch block those after it
try_stmt(self, args) ==
    The({ caught(execute_all(self, IF c = 0 THEN args ELSE SubSeq(args, 1, c - 1)),
                 IF c = 0 THEN <<>>
                 ELSE SelectSeq(SubSeq(args, c + 1, Len(args)),
                                LAMBDA x : ~(IsToken(x) /\ x.value = "catch"))) :
          c \in {FirstToken(args, 1, "catch")} })

\* the file is parsed and the children of its tree are handed to
\* execute_statement.  The content of every file of the model is either the
\* text say "a" or one NAME, the text of a call of that function.
include_stmt(self, args) ==
    The({ IF ~DictHas(self.files, abspath(self.cwd, script_path))
          THEN Print_(self, "[ERROR] Script not found: " \o script_path)
          ELSE The({ IF IsException(s.exc)
                     THEN Print_([s EXCEPT !.exc = NoExc],
                                 "[ERROR] Failed to include script: " \o s.exc.msg)
                     ELSE IF Raised(s) THEN s
                     ELSE Print_(s, "[INCLUDED] " \o script_path) :
                     s \in {execute_all(self, parse(
                               The({ IF script_content = "say \"a\""
                                     THEN <<[op |-> "say", text |-> "a"]>>
                                     ELSE <<[op |-> "call", name |-> script_content]>> :
                                     script_content \in {DictGet(self.files,
                                                               abspath(self.cwd, script_path))} })
                             ).children)} }) :
          script_path \in {PyStr(resolve_value(self, args[1]))} })

chain_stmt(self, args) == execute_all(self, args)

\* the statement kinds of the other file and network commands are not modelled;
\* a node of any other kind (statement, chain_stmt, ...) matches no branch
execute_statement(self, stmt) ==
    IF ~IsTree(stmt) THEN self
    ELSE CASE stmt.data = "say_stmt"      -> say_stmt(self, stmt.children)
           [] stmt.data = "ask_stmt"      -> ask_stmt(self, stmt.children)
           [] stmt.data = "set_stmt"      -> set_stmt(self, stmt.children)
           [] stmt.data = "if_stmt"       -> if_stmt(self, stmt.children)
           [] stmt.data = "repeat_stmt"   -> repeat_stmt(self, stmt.children)
           [] stmt.data = "copy_stmt"     -> copy_stmt(self, stmt.children)
           [] stmt.data = "move_stmt"     -> move_stmt(self, stmt.children)
           [] stmt.data = "delete_stmt"   -> delete_stmt(self, stmt.children)
           [] stmt.data = "make_file"     -> make_file(self, stmt.children)
           [] stmt.data = "include_stmt"  -> include_stmt(self, stmt.children)
           [] stmt.data = "cd_stmt"       -> cd_stmt(self, stmt.children)
           [] stmt.data = "function_def"  -> function_def(self, stmt.children)
           [] stmt.data = "function_call" -> function_call(self, stmt.children)
           [] stmt.data = "try_stmt"      -> try_stmt(self, stmt.children)
           [] stmt.data = "error_stmt"    -> error_stmt(self, stmt.children)
           [] OTHER                       -> self

start(self, stmts) == execute_all(self, stmts)

-----------------------------------------------------------------------------
(* lark's Transformer.transform(tree), which main() uses to run a tree:    *)
(* the tree is walked bottom-up; at each node, after its children, the     *)
(* method named like the node's rule (if the class has one) is called with *)
(* the transformed children, and what it returns takes the node's place.   *)
(* Every handler returns None.  A rule with no method keeps its Tree.      *)

Methods == {"say_stmt", "ask_stmt", "set_stmt", "if_stmt", "repeat_stmt", "copy_stmt",
            "move_stmt", "delete_stmt",
            "make_file", "include_stmt", "cd_stmt", "function_def", "function_call", "try_stmt",
            "error_stmt", "chain_stmt", "start"}

RECURSIVE transformed(_)
transformed(x) ==
    IF ~IsTree(x) THEN x
    ELSE IF x.data \in Methods THEN None
    ELSE Tree(x.data, [i \in 1..Len(x.children) |-> transformed(x.children[i])])

\* the calls transform(x) makes, in order: [data, args]
RECURSIVE callbacks(_)
RECURSIVE callbacks_of_all(_)
callbacks_of_all(xs) == IF xs = <<>> THEN <<>> ELSE callbacks(xs[1]) \o callbacks_of_all(Tail(xs))

callbacks(x) ==
    IF ~IsTree(x) THEN <<>>
    ELSE callbacks_of_all(x.children)
         \o (IF x.data \in Methods
             THEN <<[data |-> x.data,
                     args |-> [i \in 1..Len(x.children) |-> transformed(x.children[i])]]>>
             ELSE <<>>)

\* Transformer._call_userfunc: getattr(self, tree.data)(children) has left s;
\* an Exception of the method is re-raised as VisitError (an Exception too)
call_userfunc(data, s) ==
    IF IsException(s.exc)
    THEN Raise(s, "VisitError",
               "Error trying to process rule \"" \o data \o "\":\n\n" \o s.exc.msg)
    ELSE s

-----------------------------------------------------------------------------
(* The texts the model runs.                                               *)

Num(n) == [e |-> "num", text |-> IntStr(n)]

Str(s) == [e |-> "str", text |-> s]

Var(x) == [e |-> "var", text |-> x]

Bin(op, l, r) == [e |-> "bin", op |-> op, l |-> l, r |-> r]

Cmp(l, op, r) == [c |-> "cmp", l |-> l, op |-> op, r |-> r]

Say(m) == [op |-> "say", text |-> m]

Error(m) == [op |-> "error", text |-> m]

Set(scope, var, expr) == [op |-> "set", scope |-> scope, var |-> var, expr |-> expr]

Ask(text, scope, var) == [op |-> "ask", text |-> text, scope |-> scope, var |-> var]

CallF(name) == [op |-> "call", name |-> name]

Def(name, body) == [op |-> "def", name |-> name, body |-> body]

If(cond, body, orelse) == [op |-> "if", cond |-> cond, body |-> body, orelse |-> orelse]

\* repeat <count>, repeat infinite (count is then not read)
Repeat(kind, count, body) == [op |-> "repeat", kind |-> kind, count |-> count, body |-> body]

\* repeat while <cond>, repeat until <cond>
RepeatC(kind, cond, body) == [op |-> "repeat", kind |-> kind, cond |-> cond, body |-> body]

Try(body, handler) == [op |-> "try", body |-> body, handler |-> handler]

\* blocks of one or two of the statements in S
Blocks(S) == {<<a>> : a \in S} \cup {<<a, b>> : a, b \in S}

TryScripts ==
    LET TryBodies == Blocks({Say("a"), Say("b"), Error("x")})
        CatchBodies == {<<Say("c")>>, <<Say("c"), Say("d")>>, <<Error("y"), Say("c")>>,
                        <<Say("c"), Error("y"), Say("d")>>}
    IN {<<Try(b, h)>> : b \in TryBodies, h \in CatchBodies}
       \cup {<<Try(b, h), Say("z")>> : b \in TryBodies, h \in CatchBodies}
       \cup {<<Try(<<Say("p"), Try(b, h), Say("q")>>, <<Say("o")>>), Say("z")>> :
               b \in TryBodies, h \in CatchBodies}

Conds == {Cmp(Num(1), "equals", Num(1)), Cmp(Num(1), "equals", Num(2)),
          Cmp(Num(2), ">", Num(1)), Cmp(Str("abc"), "<", Num(1))}

IfScripts ==
    {<<If(c, b, e), Say("z")>> :
        c \in Conds, b \in {<<Say("a")>>, <<Say("a"), Say("b")>>},
        e \in {<<>>, <<Say("c")>>, <<Say("c"), Say("d")>>}}

SetScripts ==
    Blocks({Set("local", "x", Num(1)), Set("global", "x", Num(2)),
            Set("local", "y", Bin("%", Num(5), Num(0))),
            Ask("name?", "local", "x"), Ask("name?", "global", "x")})

FunctionScripts ==
    LET FunctionBodies == {<<Say("a")>>, <<Set("local", "x", Num(1)), Say("a")>>,
                           <<Say("a"), Error("x")>>, <<Def("g", <<Say("b")>>), CallF("g")>>}
    IN {<<Def("f", b), CallF("f"), CallF("f")>> : b \in FunctionBodies}
       \cup {<<Def("f", b), Def("f", <<Say("c")>>), CallF("f")>> : b \in FunctionBodies}
       \cup {<<CallF("f"), Say("z")>>, <<Def("f", <<Say("a")>>), Say("z")>>}

RepeatScripts ==
    {<<Repeat("count", IntStr(n), b), Say("z")>> : n \in 0..2, b \in {<<Say("a")>>, <<Error("x")>>}}
    \cup {<<RepeatC(k, c, <<Say("a")>>), Say("z")>> : k \in {"while", "until"}, c \in Conds}
    \cup {<<Repeat("infinite", "", b), Say("z")>> : b \in {<<Say("a")>>, <<Error("x")>>}}
    \cup {<<Try(<<Repeat("infinite", "", <<Say("a")>>)>>, <<Say("c")>>), Say("z")>>}

\* an error statement inside each nesting construct, inside a try/catch or not
Nestings(b) == {b, <<If(Cmp(Num(1), "equals", Num(1)), b, <<>>)>>,
                <<Repeat("count", "2", b)>>, <<Def("f", b), CallF("f")>>}

ErrorScripts ==
    {n \o <<Say("z")>> : n \in Nestings(<<Say("a"), Error("x"), Say("b")>>)}
    \cup {<<Try(n, <<Say("c")>>), Say("z")>> : n \in Nestings(<<Say("a"), Error("x"), Say("b")>>)}

\* the scripts that work on the file x of the working directory: include
\* "x", make file "x" "<text>" [--force], delete "x" [--force], copy and
\* move "x" to "x" or "y" [--force], repeat for each 'i' in "x"
FileScripts ==
    LET Include == [op |-> "include", path |-> "x"]
        Make(text, force) == [op |-> "make", path |-> "x", text |-> text, force |-> force]
        Delete(force) == [op |-> "delete", path |-> "x", force |-> force]
    IN {<<Include, Say("z")>>, <<Make("f", FALSE), Include, Say("z")>>,
        <<[op |-> "repeat", kind |-> "foreach", var |-> "i", path |-> "x", body |-> <<Say("a")>>],
          Say("z")>>}
       \cup {<<Make("c", f), Make("d", g), Say("z")>> : f, g \in BOOLEAN}
       \cup {<<Make("c", FALSE), Delete(f), Say("z")>> : f \in BOOLEAN}
       \cup {<<Delete(f), Say("z")>> : f \in BOOLEAN}
       \cup {<<[op |-> "cd", path |-> "d"], Make("f", FALSE), Include, Say("z")>>,
             <<[op |-> "cd", path |-> "d"], [op |-> "cd", path |-> "d"], Say("z")>>,
             <<Make("c", FALSE), [op |-> "cd", path |-> "x"], Say("z")>>}
       \cup {<<Make("c", FALSE), [op |-> o, path |-> "x", dest |-> d, force |-> f], Say("z")>> :
               o \in {"copy", "move"}, d \in {"x", "y"}, f \in BOOLEAN}
       \cup {<<[op |-> o, path |-> "x", dest |-> "y", force |-> FALSE], Say("z")>> :
               o \in {"copy", "move"}}

\* the directories the disk may hold when the interpreter starts: none, or
\* the directory that cd "d" looks for (the path is the text of its file_path
\* node), which the user may enter or not
Disks ==
    {<<>>} \cup {<<[key |-> "/w/" \o NodeRepr(file_path("d")), val |-> searchable]>> :
                    searchable \in BOOLEAN}

Scripts == TryScripts \cup IfScripts \cup SetScripts \cup FunctionScripts
           \cup RepeatScripts \cup ErrorScripts \cup FileScripts

\* what can be typed on one line of the REPL
Lines == {<<Say("a")>>, <<Error("x")>>, <<Set("local", "x", Num(1))>>,
          <<Set("global", "x", Num(2))>>, <<CallF("f")>>, <<[op |-> "cd", path |-> "d"]>>}

-----------------------------------------------------------------------------
(* The methods of the evaluator called directly on a new interpreter, on   *)
(* operands and on the trees the grammar builds for expressions and        *)
(* comparisons.                                                            *)

\* the texts of at most k characters out of 0 2 - . x
RECURSIVE Texts(_)
Texts(k) == IF k = 0 THEN {""}
            ELSE LET p == Texts(k - 1) IN p \cup {s \o c : s \in p, c \in {"0", "2", "-", ".", "x"}}

Operands == {IntV(n) : n \in (-1)..MaxNum} \cup {FloatV(1, 2), FloatV(0, 1)}
            \cup {StrV(s) : s \in Texts(MaxStrLen)}

Leaves == {Num(n) : n \in 0..MaxNum} \cup {Str("abc"), Str("-2"), Str("1.5"), Str("")}
          \cup {Var("u")}

Exprs ==
    LET Ops == {"+", "-", "*", "/", "%"}
        Small == {Num(0), Num(2), Str("abc")}
    IN Leaves
       \cup {Bin(op, l, r) : op \in Ops, l \in Leaves, r \in Leaves}
       \cup {Bin(o1, Bin(o2, a, b), c) : o1 \in Ops, o2 \in Ops, a \in Small, b \in Small, c \in Small}
       \cup {Bin(o1, a, Bin(o2, b, c)) : o1 \in Ops, o2 \in Ops, a \in Small, b \in Small, c \in Small}

\* "greater than" and "less than" are not drawn: COMP_OP joins "greater" and
\* "than" without a blank
Comparisons ==
    {Cmp(l, op, r) : l \in Leaves, op \in {"equals", "is", "=", ">", "<"}, r \in Leaves}
    \cup {Cmp(Bin("%", Num(1), Num(0)), "=", Num(0))}

\* nothing called yet
NoRet == [fn |-> "", arg |-> NoneV, expr |-> [e |-> "none"], cond |-> [c |-> "none"], wrapped |-> FALSE,
          val |-> NoneV, truth |-> FALSE, out |-> <<>>, exc |-> NoExc]

\* the scopes after at most two bindings of x and y, in either order
Scopes ==
    LET Bound == {StrV("1"), StrV("'y'"), IntV(2)}
    IN {<<>>} \cup {<<[key |-> k, val |-> v]>> : k \in {"x", "y"}, v \in Bound}
       \cup {DictSet(<<[key |-> k, val |-> v]>>, j, w) : k, j \in {"x", "y"}, v, w \in Bound}

UnitCalls ==
    {[NoRet EXCEPT !.fn = "to_number", !.arg = v] : v \in Operands}
    \cup {[NoRet EXCEPT !.fn = "resolve_value", !.arg = StrV(s)] :
             s \in {"'x'", "a'x'", "'x''y'", "'z'"}}
    \cup {[NoRet EXCEPT !.fn = "execute_statement"]}
    \cup {[NoRet EXCEPT !.fn = "evaluate_expression", !.expr = e] : e \in Exprs}
    \cup {[NoRet EXCEPT !.fn = "evaluate_condition", !.cond = c, !.wrapped = w] :
             c \in Comparisons, w \in BOOLEAN}

-----------------------------------------------------------------------------
(* main(): the script mode and the REPL, one callback of the walk at a     *)
(* time.                                                                   *)

Self(sigint) ==
    [local_vars |-> local_vars, global_vars |-> global_vars, functions |-> functions,
     files |-> files, dirs |-> dirs, current_dir |-> current_dir, cwd |-> cwd, out |-> out, stdin |-> stdin, exc |-> NoExc, sigint |-> sigint]

\* CrystalInterpreter.__init__
Fresh ==
    /\ cwd = "/w"
    /\ current_dir = cwd
    /\ local_vars = <<>>
    /\ global_vars = <<>>
    /\ functions = <<>>
    /\ out = <<>>
    /\ exit_code = -1
    /\ nlines = 0
    /\ ret = NoRet

InitScript ==
    /\ mode = "script"
    /\ src \in Scripts
    /\ agenda = callbacks(parse(src))
    /\ status = "running"
    /\ stdin \in (IF src \in FileScripts THEN {<<>>, <<"no">>, <<"yes">>} ELSE {<<>>})
    /\ files \in (IF src \in FileScripts THEN {<<>>, <<[key |-> "/w/x", val |-> "say \"a\""]>>}
                  ELSE {<<>>})
    /\ dirs \in (IF \E i \in 1..Len(src) : src[i].op = "cd" THEN Disks ELSE {<<>>})
    /\ Fresh

InitRepl ==
    /\ mode = "repl"
    /\ src = <<>>
    /\ agenda = <<>>
    /\ status = "prompt"
    /\ stdin = <<>>
    /\ files = <<>>
    /\ dirs \in Disks
    /\ Fresh

\* a method is about to be called on an interpreter with the input in ret;
\* resolve_value finds scopes that were bound before, execute_statement is
\* handed a chain_stmt node over the statements of src
InitUnit ==
    /\ mode = "unit"
    /\ agenda = <<>>
    /\ status = "unit"
    /\ stdin = <<>>
    /\ files = <<>>
    /\ dirs = <<>>
    /\ cwd = "/w"
    /\ current_dir = cwd
    /\ functions = <<>>
    /\ out = <<>>
    /\ exit_code = -1
    /\ nlines = 0
    /\ ret \in UnitCalls
    /\ src \in (IF ret.fn = "execute_statement" THEN Blocks({Say("a"), Say("b"), Error("x")})
                ELSE {<<>>})
    /\ local_vars \in (IF ret.fn = "resolve_value" THEN Scopes ELSE {<<>>})
    /\ global_vars \in (IF ret.fn = "resolve_value" THEN Scopes ELSE {<<>>})

\* sys.argv[1] names a file that does not exist
InitNoScript ==
    /\ mode = "script"
    /\ src = <<>>
    /\ agenda = <<>>
    /\ status = "nofile"
    /\ stdin = <<>>
    /\ files = <<>>
    /\ dirs = <<>>
    /\ Fresh

Init == InitScript \/ InitNoScript \/ InitRepl \/ InitUnit

\* a main() whose except clauses pass over the exception of a statement and
\* go on with the next one
Outcome_swallowing(s) ==
    /\ local_vars' = s.local_vars
    /\ global_vars' = s.global_vars
    /\ functions' = s.functions
    /\ files' = s.files
    /\ current_dir' = s.current_dir
    /\ cwd' = s.cwd
    /\ stdin' = s.stdin
    /\ out' = s.out
    /\ agenda' = Tail(agenda)
    /\ UNCHANGED <<mode, src, dirs, nlines, ret>>
    /\ IF Tail(agenda) # <<>> THEN status' = "running" /\ UNCHANGED exit_code
       ELSE IF mode = "script" THEN status' = "done" /\ exit_code' = 0
       ELSE status' = "prompt" /\ UNCHANGED exit_code

\* the end of interpreter.transform(tree) in main(): it returned, or raised
Outcome(s) ==
    /\ local_vars' = s.local_vars
    /\ global_vars' = s.global_vars
    /\ functions' = s.functions
    /\ files' = s.files
    /\ current_dir' = s.current_dir
    /\ cwd' = s.cwd
    /\ stdin' = s.stdin
    /\ UNCHANGED <<mode, src, dirs, nlines, ret>>
    /\ CASE s.exc.type = "<runs forever>" ->
              /\ out' = s.out
              /\ status' = "hung"
              /\ UNCHANGED <<agenda, exit_code>>
         [] s.exc.type = "KeyboardInterrupt" ->
              /\ agenda' = <<>>
              /\ IF mode = "script"
                 THEN out' = s.out /\ status' = "killed" /\ exit_code' = 130
                 ELSE out' = Append(s.out, "\nUse 'exit' to quit") /\ status' = "prompt"
                      /\ UNCHANGED exit_code
         [] IsException(s.exc) ->
              /\ agenda' = <<>>
              /\ IF mode = "script"
                 THEN out' = Append(s.out, "Error executing script: " \o s.exc.msg)
                      /\ status' = "error" /\ exit_code' = 1
                 ELSE out' = Append(s.out, "Error: " \o s.exc.msg) /\ status' = "prompt"
                      /\ UNCHANGED exit_code
         [] OTHER ->
              /\ out' = s.out
              /\ agenda' = Tail(agenda)
              /\ IF Tail(agenda) # <<>> THEN status' = "running" /\ UNCHANGED exit_code
                 ELSE IF mode = "script" THEN status' = "done" /\ exit_code' = 0
                 ELSE status' = "prompt" /\ UNCHANGED exit_code

\* the Transformer has reached a node of rule `data`, whose method it calls
\* with the transformed children
Visiting(data) ==
    /\ status = "running"
    /\ agenda # <<>>
    /\ Head(agenda).data = data

Args == Head(agenda).args

SayStmt ==
    /\ Visiting("say_stmt")
    /\ \E sigint \in BOOLEAN : Outcome(call_userfunc("say_stmt", say_stmt(Self(sigint), Args)))

AskStmt ==
    /\ Visiting("ask_stmt")
    /\ \E sigint \in BOOLEAN : Outcome(call_userfunc("ask_stmt", ask_stmt(Self(sigint), Args)))

SetStmt ==
    /\ Visiting("set_stmt")
    /\ \E sigint \in BOOLEAN : Outcome(call_userfunc("set_stmt", set_stmt(Self(sigint), Args)))

IfStmt ==
    /\ Visiting("if_stmt")
    /\ \E sigint \in BOOLEAN : Outcome(call_userfunc("if_stmt", if_stmt(Self(sigint), Args)))

RepeatStmt ==
    /\ Visiting("repeat_stmt")
    /\ \E sigint \in BOOLEAN :
          Outcome(call_userfunc("repeat_stmt", repeat_stmt(Self(sigint), Args)))

FunctionDef ==
    /\ Visiting("function_def")
    /\ \E sigint \in BOOLEAN :
          Outcome(call_userfunc("function_def", function_def(Self(sigint), Args)))

FunctionCall ==
    /\ Visiting("function_call")
    /\ \E sigint \in BOOLEAN :
          Outcome(call_userfunc("function_call", function_call(Self(sigint), Args)))

TryStmt ==
    /\ Visiting("try_stmt")
    /\ \E sigint \in BOOLEAN : Outcome(call_userfunc("try_stmt", try_stmt(Self(sigint), Args)))

CopyStmt ==
    /\ Visiting("copy_stmt")
    /\ \E sigint \in BOOLEAN : Outcome(call_userfunc("copy_stmt", copy_stmt(Self(sigint), Args)))

MoveStmt ==
    /\ Visiting("move_stmt")
    /\ \E sigint \in BOOLEAN : Outcome(call_userfunc("move_stmt", move_stmt(Self(sigint), Args)))

MakeFile ==
    /\ Visiting("make_file")
    /\ \E sigint \in BOOLEAN : Outcome(call_userfunc("make_file", make_file(Self(sigint), Args)))

DeleteStmt ==
    /\ Visiting("delete_stmt")
    /\ \E sigint \in BOOLEAN :
          Outcome(call_userfunc("delete_stmt", delete_stmt(Self(sigint), Args)))

CdStmt ==
    /\ Visiting("cd_stmt")
    /\ \E sigint \in BOOLEAN : Outcome(call_userfunc("cd_stmt", cd_stmt(Self(sigint), Args)))

IncludeStmt ==
    /\ Visiting("include_stmt")
    /\ \E sigint \in BOOLEAN :
          Outcome(call_userfunc("include_stmt", include_stmt(Self(sigint), Args)))

ErrorStmt ==
    /\ Visiting("error_stmt")
    /\ \E sigint \in BOOLEAN :
          Outcome(call_userfunc("error_stmt", error_stmt(Self(sigint), Args)))

Start ==
    /\ Visiting("start")
    /\ \E sigint \in BOOLEAN : Outcome(call_userfunc("start", start(Self(sigint), Args)))

\* if not os.path.exists(script_file): print(...); sys.exit(1)
ScriptNotFound ==
    /\ mode = "script"
    /\ status = "nofile"
    /\ out' = Append(out, "Error: Script file not found: s.cry")
    /\ status' = "error"
    /\ exit_code' = 1
    /\ UNCHANGED <<mode, src, agenda, local_vars, global_vars, functions, files, dirs,
                   current_dir, cwd, stdin, nlines, ret>>

\* crystal> line (src keeps the lines typed so far)
ReadLine ==
    /\ mode = "repl"
    /\ status = "prompt"
    /\ nlines < MaxLines
    /\ \E line \in Lines :
          /\ src' = src \o line
          /\ agenda' = callbacks(parse(line))
    /\ status' = "running"
    /\ nlines' = nlines + 1
    /\ UNCHANGED <<mode, local_vars, global_vars, functions, files, dirs, current_dir, cwd,
                   out, stdin, exit_code, ret>>

\* crystal> exit
ReadExit ==
    /\ mode = "repl"
    /\ status = "prompt"
    /\ status' = "exited"
    /\ exit_code' = 0
    /\ UNCHANGED <<mode, src, agenda, local_vars, global_vars, functions, files, dirs,
                   current_dir, cwd, out, stdin, nlines, ret>>

\* crystal> (a blank line)
ReadBlank ==
    /\ mode = "repl"
    /\ status = "prompt"
    /\ nlines < MaxLines
    /\ nlines' = nlines + 1
    /\ UNCHANGED <<mode, src, agenda, local_vars, global_vars, functions, files, dirs,
                   current_dir, cwd, out, stdin, status, exit_code, ret>>

-----------------------------------------------------------------------------
(* The direct calls.                                                       *)

Returned(r) ==
    /\ status' = "returned"
    /\ UNCHANGED <<mode, src, agenda, local_vars, global_vars, functions, files, dirs,
                   current_dir, cwd, out, stdin, exit_code, nlines>>

CallToNumber ==
    /\ status = "unit"
    /\ ret.fn = "to_number"
    /\ LET r == to_number(Self(FALSE), ret.arg) IN
       /\ ret' = [ret EXCEPT !.val = r.val, !.out = r.self.out, !.exc = r.self.exc]
       /\ Returned(r)

CallEvaluateExpression ==
    /\ status = "unit"
    /\ ret.fn = "evaluate_expression"
    /\ LET r == evaluate_expression(Self(FALSE), expression(ret.expr)) IN
       /\ ret' = [ret EXCEPT !.val = r.val, !.out = r.self.out, !.exc = r.self.exc]
       /\ Returned(r)

\* on the `condition` node that if_stmt and repeat_stmt hand over (wrapped),
\* or on the `comparison` node inside it
CallEvaluateCondition ==
    /\ status = "unit"
    /\ ret.fn = "evaluate_condition"
    /\ LET r == evaluate_condition(Self(FALSE), IF ret.wrapped THEN condition(ret.cond)
                                                ELSE comparison(ret.cond)) IN
       /\ ret' = [ret EXCEPT !.truth = r.val, !.out = r.self.out, !.exc = r.self.exc]
       /\ Returned(r)

\* on the STRING token of the literal "<ret.arg>"
CallResolveValue ==
    /\ status = "unit"
    /\ ret.fn = "resolve_value"
    /\ LET r == resolve_value(Self(FALSE), StringTok(ret.arg.s)) IN
       /\ ret' = [ret EXCEPT !.val = r]
       /\ Returned(r)

\* on Tree('chain_stmt', [...]) over the trees of the statements of src
CallExecuteStatement ==
    /\ status = "unit"
    /\ ret.fn = "execute_statement"
    /\ LET r == execute_statement(Self(FALSE),
                                  Tree("chain_stmt", [i \in 1..Len(src) |-> line_stmt(src[i])])) IN
       /\ ret' = [ret EXCEPT !.out = r.out, !.exc = r.exc]
       /\ Returned(r)

Next ==
    \/ SayStmt \/ AskStmt \/ SetStmt \/ IfStmt \/ RepeatStmt
    \/ CopyStmt \/ MoveStmt \/ MakeFile \/ DeleteStmt \/ IncludeStmt \/ CdStmt
    \/ FunctionDef \/ FunctionCall \/ TryStmt \/ ErrorStmt \/ Start
    \/ ScriptNotFound \/ ReadLine \/ ReadExit \/ ReadBlank
    \/ CallToNumber \/ CallEvaluateExpression \/ CallEvaluateCondition
    \/ CallResolveValue \/ CallExecuteStatement

Spec == Init /\ [][Next]_vars

-----------------------------------------------------------------------------
(* What the language description promises, stated on the runs of main().   *)

\* the text has been processed: the script has ended, or the REPL is back at
\* its prompt after the last line typed
Processed ==
    \/ mode = "script" /\ status \in {"done", "error", "killed"}
    \/ mode = "repl" /\ status = "prompt" /\ src # <<>>

\* the lines that `say` statements printed ("[...]" lines and error reports
\* left out)
Said == SelectSeq(out, LAMBDA line : Len(line) = 1)

\* the number in the last `set <scope> 'x' = <number>` of a text, as text, or ""
RECURSIVE LastSet(_, _)
LastSet(text, scope) ==
    IF text = <<>> THEN ""
    ELSE IF text[Len(text)].scope = scope /\ text[Len(text)].var = "x"
    THEN text[Len(text)].expr.text
    ELSE LastSet(SubSeq(text, 1, Len(text) - 1), scope)

\* texts of `set` statements that assign a number to 'x'
OnlySetsOfX ==
    /\ src # <<>>
    /\ \A i \in 1..Len(src) : src[i].op = "set" /\ src[i].var = "x" /\ src[i].expr.e = "num"

\* C1: after a sequence of set statements, resolving 'x' yields the current
\* local binding of x if there is one, otherwise the global one, otherwise the
\* marker [UNDEFINED: x]; after `set local x = 1` and `set global x = 2`, in
\* either order, it yields 1.
C1_LocalShadowsGlobal ==
    (Processed /\ OnlySetsOfX) =>
        PyStr(resolve_value(Self(FALSE), value(Var("x")))) =
            (IF LastSet(src, "local") # "" THEN LastSet(src, "local")
             ELSE IF LastSet(src, "global") # "" THEN LastSet(src, "global")
             ELSE "[UNDEFINED: x]")

\* a block of say and error statements only
Flat(block) == \A i \in 1..Len(block) : block[i].op \in {"say", "error"}

\* the index of the first error statement of a flat block, or 0
FirstError(block) ==
    IF \E i \in 1..Len(block) : block[i].op = "error"
    THEN CHOOSE i \in 1..Len(block) :
            block[i].op = "error" /\ \A j \in 1..(i - 1) : block[j].op # "error"
    ELSE 0

\* what the say statements of a flat block print when the block is run up to
\* its first error statement
RECURSIVE SaysOf(_)
SaysOf(block) ==
    IF block = <<>> \/ block[1].op = "error" THEN <<>> ELSE <<block[1].text>> \o SaysOf(Tail(block))

IsPrefix(p, s) == Len(p) <= Len(s) /\ SubSeq(s, 1, Len(p)) = p

\* the text is one try/catch over flat blocks
OneTry == Len(src) = 1 /\ src[1].op = "try" /\ Flat(src[1].body) /\ Flat(src[1].handler)

\* C2: when the k-th statement of the try block signals an error, the
\* statements after it do not run and the catch block then runs once from its
\* first statement; when no statement of the try block signals an error, every
\* try statement runs in order and no statement of the catch block runs.
C2_TryCatch ==
    (mode = "script" /\ Processed /\ OneTry) =>
        IF FirstError(src[1].body) = 0
        THEN out = SaysOf(src[1].body)
        ELSE IsPrefix(SaysOf(src[1].body)
                      \o <<"[ERROR CAUGHT] " \o src[1].body[FirstError(src[1].body)].text>>
                      \o SaysOf(src[1].handler), out)

\* the block [say a, error x, say b] inside each nesting construct
ErrorNest == Nestings(<<Say("a"), Error("x"), Say("b")>>)

\* C3: an error raised by an error statement abandons the statements after it
\* at every nesting level and propagates until the nearest enclosing try/catch
\* handles it, or to the top level when there is none.
C3_ErrorPropagates ==
    (mode = "script" /\ Processed) =>
        /\ \A n \in ErrorNest :
              src = n \o <<Say("z")>> => status = "error" /\ Said = <<"a">>
        /\ \A n \in ErrorNest :
              src = <<Try(n, <<Say("c")>>), Say("z")>> =>
                  /\ status = "done"
                  /\ Said = <<"a", "c", "z">>
                  /\ \E i \in 1..Len(out) : out[i] = "[ERROR CAUGHT] x"

\* the text is a try/catch whose try block holds, between two say statements,
\* a try/catch with an error statement in its catch block
ErrorInCatch ==
    /\ Len(src) = 2
    /\ src[1].op = "try"
    /\ Len(src[1].body) = 3
    /\ src[1].body[2].op = "try"
    /\ FirstError(src[1].body[2].body) # 0
    /\ FirstError(src[1].body[2].handler) # 0

\* C4: an error signalled inside a catch block is not handled by that
\* try/catch: the rest of the catch block is abandoned and the error goes to
\* the next enclosing try/catch (here: the outer one, whose catch block says
\* "o", after which the script goes on with say "z").
C4_ErrorInCatch ==
    (mode = "script" /\ Processed /\ ErrorInCatch) =>
        /\ status = "done"
        /\ Said = <<"p">> \o SaysOf(src[1].body[2].body) \o SaysOf(src[1].body[2].handler)
                  \o <<"o", "z">>
        /\ \E i \in 1..Len(out) : out[i] = "[ERROR CAUGHT] y"

\* how many of the lines printed read `line`
Count(line) == Cardinality({i \in 1..Len(out) : out[i] = line})

\* C5: after defining a function and calling it twice the body has executed
\* exactly twice, in the caller's context: what the first call defined (here
\* a function g) is there for the second call and for the caller.
C5_CalledTwice ==
    (mode = "script" /\ Processed) =>
        /\ src = <<Def("f", <<Say("a")>>), CallF("f"), CallF("f")>> =>
              status = "done" /\ Count("a") = 2
        /\ src = <<Def("f", <<Def("g", <<Say("b")>>), CallF("g")>>), CallF("f"), CallF("f")>> =>
              status = "done" /\ Count("b") = 2 /\ DictHas(functions, "g")

\* the text is a conditional over blocks of say statements, then say "z"
OneIf ==
    /\ Len(src) = 2
    /\ src[1].op = "if"
    /\ Flat(src[1].body) /\ FirstError(src[1].body) = 0
    /\ Flat(src[1].orelse) /\ FirstError(src[1].orelse) = 0

\* the truth of a comparison of two number literals
Holds(c) ==
    CASE c.op \in {"equals", "is", "="} -> IntOf(c.l.text) = IntOf(c.r.text)
      [] c.op = ">"                     -> IntOf(c.l.text) > IntOf(c.r.text)
      [] OTHER                          -> IntOf(c.l.text) < IntOf(c.r.text)

\* C10: a conditional executes the statements of exactly one block: the
\* if-block when the condition is true, the otherwise-block when it is false
\* and there is one, and no statement when it is false and there is none.
C10_OneBlock ==
    (mode = "script" /\ Processed /\ OneIf /\ src[1].cond.l.e = "num" /\ src[1].cond.r.e = "num") =>
        Said = (IF Holds(src[1].cond) THEN SaysOf(src[1].body) ELSE SaysOf(src[1].orelse))
               \o <<"z">>

-----------------------------------------------------------------------------
(* What the language description promises of the evaluator, stated on the  *)
(* direct calls.                                                           *)

\* a string literal whose text does not read as a number
NonNumeric(e) == e.e = "str" /\ ~IntParses(e.text) /\ ~FloatParses(e.text)

\* evaluate_condition has returned from a comparison node
Compared == status = "returned" /\ ret.fn = "evaluate_condition" /\ ~ret.wrapped

\* C6: a comparison of a non-numeric string with a number is, with an equality
\* operator, the string equality of the two sides, hence false; with an
\* ordering operator it is false and an error is logged; the operands are not
\* treated as numbers.
C6_ComparisonFallback ==
    (/\ Compared
     /\ \/ NonNumeric(ret.cond.l) /\ ret.cond.r.e = "num"
        \/ ret.cond.l.e = "num" /\ NonNumeric(ret.cond.r)) =>
        /\ ret.truth = FALSE
        /\ ret.exc = NoExc
        /\ ret.cond.op \notin {"equals", "is", "="} =>
              \E i \in 1..Len(ret.out) :
                 ret.out[i] = "[ERROR] Cannot compare non-numeric values with " \o ret.cond.op

\* the text is made of set statements
OnlySets == src # <<>> /\ \A i \in 1..Len(src) : src[i].op = "set"

\* C8: arithmetic is not fatal: executing a set statement or evaluating a
\* comparison over any expression of add, subtract, multiply, divide and
\* modulo (zero divisors and zero moduli included) raises no error.
C8_NonFatalArithmetic ==
    /\ (Processed /\ OnlySets) =>
          /\ status # "error"
          /\ \A i \in 1..Len(out) : ~startswith(out[i], "Error")
    /\ (status = "returned" /\ ret.fn \in {"evaluate_expression", "evaluate_condition"}) =>
          ret.exc = NoExc

\* a literal that reads as an integer, and the integer
IntLiteral(e) == e.e \in {"num", "str"} /\ IntParses(e.text)

IntLiteralOf(e) == IntOf(e.text)

\* evaluate_expression has returned from the tree of <a> op <b>, a and b
\* integer literals
Evaluated(op) ==
    /\ status = "returned"
    /\ ret.fn = "evaluate_expression"
    /\ ret.expr.e = "bin"
    /\ ret.expr.op = op
    /\ IntLiteral(ret.expr.l)
    /\ IntLiteral(ret.expr.r)

\* the call returned the integer n and printed nothing
Gives(n) == ret.val = IntV(n) /\ ret.exc = NoExc /\ ret.out = <<>>

\* r is a mod b, b # 0: a - r is a multiple of b and r lies between 0 and b
IsMod(r, a, b) ==
    /\ (a - r) % Abs(b) = 0
    /\ IF b > 0 THEN 0 <= r /\ r < b ELSE b < r /\ r <= 0

Coerced == status = "returned" /\ ret.fn = "to_number"

\* what to_number prints for a text it cannot read
CannotConvert(text) == "[ERROR] Cannot convert '" \o text \o "' to number"

\* the text of a leaf as resolve_value gives it on a new interpreter
LeafText(e) == IF e.e = "var" THEN "[UNDEFINED: " \o e.text \o "]" ELSE e.text

Unparsable(e) == ~IntParses(LeafText(e)) /\ ~FloatParses(LeafText(e))

\* the expression with 0 in the place of each operand that does not parse
Zeroed(e) == [e EXCEPT !.l = IF Unparsable(e.l) THEN Num(0) ELSE e.l,
                       !.r = IF Unparsable(e.r) THEN Num(0) ELSE e.r]

-----------------------------------------------------------------------------
(* Loops.                                                                  *)

\* n times the line
RECURSIVE Times(_, _)
Times(n, line) == IF n = 0 THEN <<>> ELSE <<line>> \o Times(n - 1, line)

\* C11: a count repeat with argument N executes its body exactly N times when
\* no statement of the body signals an error, and zero times when N = 0; the
\* statement after the loop then runs.
C11_CountRepeat ==
    \A n \in 0..2 :
        (mode = "script" /\ Processed /\ src = <<Repeat("count", IntStr(n), <<Say("a")>>), Say("z")>>) =>
            status = "done" /\ Said = Times(n, "a") \o <<"z">>

\* the text is one while/until loop over a comparison of number literals
\* with the body `say "a"`, followed by `say "z"`
OneCondLoop ==
    /\ mode = "script"
    /\ Len(src) = 2
    /\ src[1].op = "repeat"
    /\ src[1].kind \in {"while", "until"}
    /\ src[1].cond.l.e = "num"
    /\ src[1].cond.r.e = "num"
    /\ src[2] = Say("z")

\* C12: a while (until) loop whose condition is false (true) at the first
\* evaluation runs its body zero times and the script goes on; a loop whose
\* condition never stops it never ends, so the script does not finish.
C12_CondRepeat ==
    OneCondLoop =>
        IF (src[1].kind = "while") # Holds(src[1].cond)
        THEN status \in {"done", "error", "killed", "hung"} => status = "done" /\ Said = <<"z">>
        ELSE status # "done"

\* C14: an interrupt during an infinite repeat inside a try block ends the
\* loop and the script goes on with the statement after the construct; the
\* catch block does not run for it.
C14_InterruptEndsLoop ==
    (/\ mode = "script"
     /\ Processed
     /\ src = <<Try(<<Repeat("infinite", "", <<Say("a")>>)>>, <<Say("c")>>), Say("z")>>
     /\ Count("\n[Loop interrupted]") = 1) =>
        /\ status = "done"
        /\ Count("c") = 0
        /\ out[Len(out)] = "z"

-----------------------------------------------------------------------------
(* The function table.                                                     *)

\* C16: a definition stores the body without executing any statement of it,
\* a later definition of the name replaces it, and a call executes the body
\* of the latest definition; a call to an undefined name does nothing.
C16_FunctionTable ==
    (mode = "script" /\ Processed) =>
        /\ src = <<Def("f", <<Say("a")>>), Def("f", <<Say("c")>>), CallF("f")>> =>
              status = "done" /\ Said = <<"c">>
        /\ src = <<Def("f", <<Say("a")>>), Say("z")>> =>
              status = "done" /\ Said = <<"z">> /\ DictHas(functions, "f")
        /\ src = <<CallF("f"), Say("z")>> =>
              status = "done" /\ Said = <<"z">> /\ ~DictHas(functions, "f")

-----------------------------------------------------------------------------
(* The top level.                                                          *)

\* the statement main() is about to run signals an error: an error statement,
\* or a set statement (which fails on its missing third argument)
ErrorAtTop ==
    /\ status = "running"
    /\ agenda # <<>>
    /\ Head(agenda).data \in {"error_stmt", "set_stmt"}

\* C19: an error that reaches main() ends a script at once with exit code 1
\* (a missing script file too) and nothing runs after it; in the REPL it is
\* reported and the prompt comes back with variables and functions as they
\* were, a blank line executes nothing, and `exit` ends the loop.
C19_TopLevel ==
    [][/\ (mode = "script" /\ (ErrorAtTop \/ status = "nofile")) =>
             /\ status' = "error"
             /\ exit_code' = 1
             /\ agenda' = <<>>
             /\ Len(out') = Len(out) + 1
             /\ startswith(out'[Len(out')], "Error")
             /\ UNCHANGED <<local_vars, global_vars, functions>>
       /\ status # "error"
       /\ (mode = "repl" /\ ErrorAtTop) =>
             /\ status' = "prompt"
             /\ agenda' = <<>>
             /\ Len(out') = Len(out) + 1
             /\ startswith(out'[Len(out')], "Error: ")
             /\ UNCHANGED <<local_vars, global_vars, functions, exit_code, src, nlines>>
       /\ (mode = "repl" /\ status = "prompt") =>
             /\ UNCHANGED <<local_vars, global_vars, functions, out>>
             /\ \/ status' = "running" /\ agenda' # <<>> /\ src' # src
                \/ status' = "prompt" /\ UNCHANGED <<agenda, src>>
                \/ status' = "exited" /\ UNCHANGED <<agenda, src>>
       /\ status # "exited"
      ]_vars

\* the REPL has reported the error of a first line and run a second line
C19_Witness ==
    /\ mode = "repl"
    /\ status = "prompt"
    /\ src = <<Error("x"), Say("a")>>
    /\ Len(out) = 2
    /\ startswith(out[1], "Error: ")
    /\ out[2] = "a"
    /\ exit_code = -1

-----------------------------------------------------------------------------
(* String literals and chains.                                             *)

\* the text with every 'name' of a bound name replaced by the text of its
\* value, read from left to right
RECURSIVE Interpolated(_, _)
Interpolated(text, scope) ==
    IF text = "" THEN ""
    ELSE IF \E i \in 1..Len(scope) : startswith(text, "'" \o scope[i].key \o "'")
    THEN LET i == CHOOSE i \in 1..Len(scope) : startswith(text, "'" \o scope[i].key \o "'")
         IN PyStr(scope[i].val)
            \o Interpolated(SubSeq(text, Len(scope[i].key) + 3, Len(text)), scope)
    ELSE Char(text, 1) \o Interpolated(SubSeq(text, 2, Len(text)), scope)

\* C15: resolving a string literal replaces every 'name' of a bound name by
\* the text of its value, the local one when both scopes bind the name, and
\* leaves the other 'name' as they are; it raises nothing and leaves the
\* scopes as they were.
C15_Interpolation ==
    (status = "returned" /\ ret.fn = "resolve_value") =>
        /\ ret.val = StrV(Interpolated(ret.arg.s, DictMerge(global_vars, local_vars)))
        /\ ret.exc = NoExc

\* C18: a chain handed to execute_statement runs its members in order like a
\* block: the says before the first error have printed, and a member that
\* signals an error ends the chain with that error.
C18_Chain ==
    (status = "returned" /\ ret.fn = "execute_statement") =>
        /\ ret.out = SaysOf(src)
        /\ (FirstError(src) # 0) = IsException(ret.exc)

-----------------------------------------------------------------------------
(* Files.                                                                  *)

\* C13: a for-each repeat over a path that is not a directory logs an error,
\* runs its body zero times and binds nothing; the script goes on.
C13_ForEach ==
    (/\ mode = "script"
     /\ Processed
     /\ src = <<[op |-> "repeat", kind |-> "foreach", var |-> "i", path |-> "x",
                 body |-> <<Say("a")>>], Say("z")>>) =>
        /\ status = "done"
        /\ Said = <<"z">>
        /\ Len(out) = 2
        /\ local_vars = <<>>
        /\ global_vars = <<>>

\* C17: including the script x, which holds say "a", executes that statement
\* at the include site, and the includer's next statement runs after it.
C17_Include ==
    (/\ mode = "script"
     /\ Processed
     /\ src = <<[op |-> "include", path |-> "x"], Say("z")>>
     /\ DictHas(files, "/w/x")) =>
        /\ status = "done"
        /\ Said = <<"a", "z">>

\* C20: a script whose make-file and delete statements all carry the force
\* flag is never asked for a confirmation: no prompt is printed, no line of
\* stdin is read, and the script runs to its end.
C20_ForceNeverAsks ==
    (/\ mode = "script"
     /\ Processed
     /\ src \in FileScripts
     /\ \A i \in 1..Len(src) : src[i].op \in {"make", "delete"} => src[i].force
     /\ \E i \in 1..Len(src) : src[i].op \in {"make", "delete"}) =>
        /\ status = "done"
        /\ \A i \in 1..Len(out) : ~endswith(out[i], "(yes/no) ")

-----------------------------------------------------------------------------
(* The order of the bindings.                                              *)

\* the same bindings, made in the opposite order
Reversed(scope) == [i \in 1..Len(scope) |-> scope[Len(scope) + 1 - i]]

\* C22: what resolving a string literal gives depends on the literal and on
\* the bindings only: with the same variables bound in the opposite order the
\* result is the same, since a value put into the text is not scanned again.
C22_OrderIndependent ==
    (status = "returned" /\ ret.fn = "resolve_value") =>
        ret.val = resolve_value([Self(FALSE) EXCEPT !.local_vars = Reversed(local_vars),
                                                    !.global_vars = Reversed(global_vars)],
                                StringTok(ret.arg.s))

-----------------------------------------------------------------------------
(* Copy and move.                                                          *)

\* the file that the i-th path of the copy or move statement about to run
\* names
PathOf(i) == abspath(current_dir, PyStr(resolve_value(Self(FALSE), Args[i])))

\* C23: a copy statement leaves the source file in place with its content,
\* and after a move statement the content that was at the source is at the
\* source or at the destination, whatever the two paths are.
C23_NoDataLoss ==
    [][/\ (Visiting("copy_stmt") /\ DictHas(files, PathOf(1))) =>
             /\ DictHas(files', PathOf(1))
             /\ DictGet(files', PathOf(1)) = DictGet(files, PathOf(1))
       /\ (Visiting("move_stmt") /\ DictHas(files, PathOf(1))) =>
             \E i \in 1..2 : /\ DictHas(files', PathOf(i))
                             /\ DictGet(files', PathOf(i)) = DictGet(files, PathOf(1))
      ]_vars

-----------------------------------------------------------------------------
(* The current directory.                                                  *)

\* C21: whatever cd statements have run, as long as the interpreter goes on
\* (a script is running or has ended normally, the REPL is running a line or
\* is at its prompt) the directory it tracks is the working directory of the
\* process, so that a relative path means the same file to the handlers that
\* join it with the tracked directory and to those that hand it to the OS.
C21_TrackedIsCwd ==
    (mode \in {"script", "repl"} /\ status \in {"running", "done", "prompt"}) => current_dir = cwd

====
